---------------------------- MODULE Spec2Model ----------------------------
(***************************************************************************)
(* Model of the trending-cron repository.                                  *)
(*                                                                         *)
(*   collect_trending.py    update_dataset: appends one collection run to  *)
(*                          the stored "models" / "datasets" collections.  *)
(*   trending-discovery.py  find_new_trending_items: top-N truncation per  *)
(*                          collected_at, window partition at              *)
(*                          latest - days, set difference of ids, one      *)
(*                          representative row per id, age filter.         *)
(*                                                                         *)
(* Timestamps are whole days (integers).  pandas' NaT is the value NaT;    *)
(* every comparison with it is false and arithmetic on it yields NaT.      *)
(***************************************************************************)
EXTENDS Integers, Sequences, FiniteSets

(***************************************************************************)
(* Bounds of the model.                                                    *)
(***************************************************************************)
\* number of rows held by the store: by both collections together where a
\* discovery run starts, by each collection where collection runs fill it
MaxRows == 3

\* number of items of a kind the registry lists in one collection run
MaxListed == 1

\* repository ids
Ids == {"A", "B"}
\* collection instants, in days
Times == {1, 8}
\* what the registry reports for an item: a much-downloaded, freshly modified
\* one, or a little-downloaded one last modified long ago
Profiles == {[downloads |-> 2, last_modified |-> 8],
             [downloads |-> 1, last_modified |-> -25]}
\* caller-supplied days / max_age_months / top_n_per_day
DaysChoices == {6, 7}
MonthsChoices == {0, 1}
TopNChoices == {1, 2}

\* pandas.NaT: what Series.max() yields on an empty column
NaT == -1000000

\* one stored row (the columns the discovery reads)
Row(id, collected_at, downloads, last_modified) ==
    [id |-> id, collected_at |-> collected_at, downloads |-> downloads,
     last_modified |-> last_modified]

Rows == {Row(i, t, p.downloads, p.last_modified) :
            i \in Ids, t \in Times, p \in Profiles}

RECURSIVE SeqsUpTo(_, _)
\* all sequences over S of length at most n
SeqsUpTo(S, n) ==
    IF n = 0 THEN {<<>>}
    ELSE LET shorter == SeqsUpTo(S, n - 1)
         IN  shorter \cup {Append(s, x) : s \in {t \in shorter : Len(t) = n - 1}, x \in S}

\* the scenario of two generations, {A, B} on day 1 and {B, C} on day 8
ExampleModels ==
    <<Row("A", 1, 2, 8), Row("B", 1, 2, 8), Row("B", 8, 2, 8), Row("C", 8, 2, 8)>>

AllIds == Ids \cup {"C"}

VARIABLES
    hub_models,     \* the stored "models" collection of the dataset repository
    hub_datasets,   \* the stored "datasets" collection of the dataset repository
    discovery       \* outcome and locals of the last find_new_trending_items run

vars == <<hub_models, hub_datasets, discovery>>

(***************************************************************************)
(* Timestamps: comparison and arithmetic with NaT.                         *)
(***************************************************************************)
\* a < b on pandas timestamps (False when either side is NaT)
TsLt(a, b) == a # NaT /\ b # NaT /\ a < b

\* a >= b on pandas timestamps (False when either side is NaT)
TsGe(a, b) == a # NaT /\ b # NaT /\ a >= b

\* ts - timedelta(days=d)
MinusDays(ts, d) == IF ts = NaT THEN NaT ELSE ts - d

\* Series.max() of the collected_at column
CollectedAtMax(df) ==
    IF df = <<>> THEN NaT
    ELSE CHOOSE t \in {df[i].collected_at : i \in DOMAIN df} :
             \A i \in DOMAIN df : df[i].collected_at <= t

\* Python's builtin max(a, b): b when b > a, otherwise a
PyMax(a, b) == IF a # NaT /\ b # NaT /\ b > a THEN b ELSE a

(***************************************************************************)
(* Data-frame helpers.                                                     *)
(***************************************************************************)
\* the rows of df at the positions in keep, in their order in df
Take(df, keep) ==
    [k \in 1..Cardinality(keep) |->
        df[CHOOSE i \in keep : Cardinality({j \in keep : j <= i}) = k]]

\* row a sorts before row b under ['collected_at', 'downloads'], ascending=[True, False]
SortsBefore(a, b) ==
    \/ a.collected_at < b.collected_at
    \/ a.collected_at = b.collected_at /\ a.downloads > b.downloads

\* df.sort_values(['collected_at', 'downloads'], ascending=[True, False]):
\* a multi-column sort is a lexsort, which is stable
SortValues(df) ==
    LET pos(i) == 1 + Cardinality({j \in DOMAIN df :
                        \/ SortsBefore(df[j], df[i])
                        \/ j < i /\ ~SortsBefore(df[i], df[j])})
    IN  [k \in DOMAIN df |-> df[CHOOSE i \in DOMAIN df : pos(i) = k]]

\* GroupbyHead without the grouping: df.head(n)
HeadWithoutGroupby(df, n) == Take(df, {i \in DOMAIN df : i <= n})

\* df.groupby('collected_at').head(n).reset_index(drop=True)
GroupbyHead(df, n) ==
    Take(df, {i \in DOMAIN df :
                Cardinality({j \in 1..(i - 1) :
                    df[j].collected_at = df[i].collected_at}) < n})

\* lines 35-36 / 38-39: keep the top N rows of every collected_at
TopNPerDay(df, n) == GroupbyHead(SortValues(df), n)

\* BeforeIds with the boundary instant counted as before (<=)
BeforeIdsInclusive(df, cutoff) ==
    {df[i].id : i \in {j \in DOMAIN df :
        TsLt(df[j].collected_at, cutoff) \/ df[j].collected_at = cutoff}}

\* set(df[df['collected_at'] < cutoff]['id'].unique())
BeforeIds(df, cutoff) ==
    {df[i].id : i \in {j \in DOMAIN df : TsLt(df[j].collected_at, cutoff)}}

\* AfterIds with the boundary instant left out (>)
AfterIdsExclusive(df, cutoff) ==
    {df[i].id : i \in {j \in DOMAIN df : TsLt(cutoff, df[j].collected_at)}}

\* set(df[df['collected_at'] >= cutoff]['id'].unique())
AfterIds(df, cutoff) ==
    {df[i].id : i \in {j \in DOMAIN df : TsGe(df[j].collected_at, cutoff)}}

\* NewIds without the difference
NewIdsNoDifference(after_ids, before_ids) == after_ids

\* after_ids - before_ids
NewIds(after_ids, before_ids) == after_ids \ before_ids

\* df[df['id'].isin(ids)]
Isin(df, ids) == Take(df, {i \in DOMAIN df : df[i].id \in ids})

RECURSIVE SortDescending(_)
\* df.sort_values('collected_at', ascending=False): a single-column sort uses
\* quicksort, which is not stable, so rows of equal collected_at may come out
\* in any order. The set of the orders it can produce.
SortDescending(df) ==
    IF df = <<>> THEN {<<>>}
    ELSE LET latest == CollectedAtMax(df)
             firsts == {i \in DOMAIN df : df[i].collected_at = latest}
         IN  UNION {{<<df[i]>> \o rest :
                        rest \in SortDescending(Take(df, DOMAIN df \ {i}))} :
                    i \in firsts}

\* DropDuplicates with keep='last'
DropDuplicatesKeepLast(df) ==
    Take(df, {i \in DOMAIN df : \A j \in (i + 1)..Len(df) : df[j].id # df[i].id})

\* df.drop_duplicates('id', keep='first')
DropDuplicates(df) ==
    Take(df, {i \in DOMAIN df : \A j \in 1..(i - 1) : df[j].id # df[i].id})

\* AgeFilter with a strict comparison (>)
AgeFilterStrict(df, age_cutoff) ==
    Take(df, {i \in DOMAIN df : TsLt(age_cutoff, df[i].last_modified)})

\* df[df['last_modified'] >= age_cutoff_date]
AgeFilter(df, age_cutoff) ==
    Take(df, {i \in DOMAIN df : TsGe(df[i].last_modified, age_cutoff)})

\* timedelta(days=30*max_age_months), in days
DaysPerMonth == 30
AgeWindow(months) == DaysPerMonth * months

\* LatestDate from the models frame alone
LatestDateModelsOnly(mdf, ddf) == CollectedAtMax(mdf)

\* line 42: the latest collection date, over both frames
LatestDate(mdf, ddf) == PyMax(CollectedAtMax(mdf), CollectedAtMax(ddf))

(***************************************************************************)
(* The discovery run (trending-discovery.py).                              *)
(***************************************************************************)
\* no discovery run has ended yet
NoRun == [status |-> "none"]

\* the run raised: load_dataset failed and the except clause re-raised
Raised == [status |-> "raised"]

\* find_new_trending_items on the loaded frames: the locals and the returned
\* dictionary of every outcome the run can have (one per order the unstable
\* sort of lines 63 and 67 can produce)
FindNewResults(models, datasets, days, max_age_months, top_n_per_day) ==
    LET models_df       == TopNPerDay(models, top_n_per_day)
        datasets_df     == TopNPerDay(datasets, top_n_per_day)
        latest_date     == LatestDate(models_df, datasets_df)
        cutoff_date     == MinusDays(latest_date, days)
        age_cutoff_date == MinusDays(latest_date, AgeWindow(max_age_months))
        models_before_ids   == BeforeIds(models_df, cutoff_date)
        models_after_ids    == AfterIds(models_df, cutoff_date)
        datasets_before_ids == BeforeIds(datasets_df, cutoff_date)
        datasets_after_ids  == AfterIds(datasets_df, cutoff_date)
        new_models_ids   == NewIds(models_after_ids, models_before_ids)
        new_datasets_ids == NewIds(datasets_after_ids, datasets_before_ids)
    IN  {[status |-> "returned",
          days |-> days,
          max_age_months |-> max_age_months,
          top_n_per_day |-> top_n_per_day,
          models_df |-> models_df,
          datasets_df |-> datasets_df,
          latest_date |-> latest_date,
          cutoff_date |-> cutoff_date,
          age_cutoff_date |-> age_cutoff_date,
          models_before_ids |-> models_before_ids,
          models_after_ids |-> models_after_ids,
          datasets_before_ids |-> datasets_before_ids,
          datasets_after_ids |-> datasets_after_ids,
          resolved_models |-> DropDuplicates(sorted_models),
          resolved_datasets |-> DropDuplicates(sorted_datasets),
          new_models |-> AgeFilter(DropDuplicates(sorted_models), age_cutoff_date),
          new_datasets |-> AgeFilter(DropDuplicates(sorted_datasets), age_cutoff_date)] :
            sorted_models \in SortDescending(Isin(models_df, new_models_ids)),
            sorted_datasets \in SortDescending(Isin(datasets_df, new_datasets_ids))}

\* find_new_trending_items(days, max_age_months, top_n_per_day), the store readable
FindNewTrendingItems(days, max_age_months, top_n_per_day) ==
    /\ discovery.status = "none"
    /\ discovery' \in FindNewResults(hub_models, hub_datasets,
                                     days, max_age_months, top_n_per_day)
    /\ UNCHANGED <<hub_models, hub_datasets>>

\* find_new_trending_items when load_dataset raises: logged and re-raised
FindNewTrendingItemsLoadFails ==
    /\ discovery.status = "none"
    /\ discovery' = Raised
    /\ UNCHANGED <<hub_models, hub_datasets>>

\* the script's __main__: one call, with the caller's parameters
Discover ==
    \E days \in DaysChoices, max_age_months \in MonthsChoices,
       top_n_per_day \in TopNChoices :
        FindNewTrendingItems(days, max_age_months, top_n_per_day)

(***************************************************************************)
(* The collection run (collect_trending.py).                               *)
(***************************************************************************)
\* what the registry lists for one item
Items == {[id |-> i, downloads |-> p.downloads, last_modified |-> p.last_modified] :
            i \in Ids, p \in Profiles}

\* prepare_model_data / prepare_dataset_data: one row per listed item, stamped
\* with the process's COLLECTION_DATE
PrepareData(items, COLLECTION_DATE) ==
    [i \in DOMAIN items |->
        Row(items[i].id, COLLECTION_DATE, items[i].downloads, items[i].last_modified)]

\* the try block of update_dataset: the existing rows, then the new rows
ConcatenateDatasets(existing, new) == existing \o new

\* update_dataset(models_df, datasets_df, dataset_repo)
UpdateDataset(models_df, datasets_df) ==
    /\ \/ \* load_dataset and the concatenation went through
          /\ Len(hub_models) + Len(models_df) <= MaxRows
          /\ Len(hub_datasets) + Len(datasets_df) <= MaxRows
          /\ hub_models' = ConcatenateDatasets(hub_models, models_df)
          /\ hub_datasets' = ConcatenateDatasets(hub_datasets, datasets_df)
       \/ \* they raised: the except block pushes the new rows alone
          /\ hub_models' = models_df
          /\ hub_datasets' = datasets_df
    /\ UNCHANGED discovery

\* what list_models / list_datasets can return in one run: at least one
\* item, MaxListed at most
Listings == SeqsUpTo(Items, MaxListed) \ {<<>>}

\* main() of collect_trending.py: list, prepare, update
Collect ==
    \E COLLECTION_DATE \in Times, models \in Listings, datasets \in Listings :
        UpdateDataset(PrepareData(models, COLLECTION_DATE),
                      PrepareData(datasets, COLLECTION_DATE))

(***************************************************************************)
(* Specifications.                                                         *)
(***************************************************************************)
\* the repository holds any rows of the record shape, MaxRows at most, or
\* the example scenario
Init ==
    /\ \/ /\ hub_models \in SeqsUpTo(Rows, MaxRows)
          /\ hub_datasets \in SeqsUpTo(Rows, MaxRows - Len(hub_models))
       \/ /\ hub_models = ExampleModels
          /\ hub_datasets = <<>>
    /\ discovery = NoRun

Next ==
    \/ Discover
    \/ FindNewTrendingItemsLoadFails

\* a discovery run over any stored history
Spec == Init /\ [][Next]_vars

\* the repository before the first collection run
InitCollect ==
    /\ hub_models = <<>>
    /\ hub_datasets = <<>>
    /\ discovery = NoRun

NextCollect == Collect

\* collection runs, one after the other, from an empty repository
CollectSpec == InitCollect /\ [][NextCollect]_vars

(***************************************************************************)
(* Properties.                                                             *)
(***************************************************************************)
Kinds == {"models", "datasets"}

Returns == discovery.status = "returned"

\* the stored collection of a kind
Stored(k) == IF k = "models" THEN hub_models ELSE hub_datasets
\* its top-N-truncated frame
Frame(k) == IF k = "models" THEN discovery.models_df ELSE discovery.datasets_df
BeforeIdsOf(k) ==
    IF k = "models" THEN discovery.models_before_ids ELSE discovery.datasets_before_ids
AfterIdsOf(k) ==
    IF k = "models" THEN discovery.models_after_ids ELSE discovery.datasets_after_ids
\* the new-item rows before the age filter
Resolved(k) ==
    IF k = "models" THEN discovery.resolved_models ELSE discovery.resolved_datasets
\* the returned rows
Returned(k) == IF k = "models" THEN discovery.new_models ELSE discovery.new_datasets

IdsIn(df) == {df[i].id : i \in DOMAIN df}

\* the rows of df collected at t
RowsAt(df, t) == Take(df, {i \in DOMAIN df : df[i].collected_at = t})

\* row i of df lies before the cutoff / at or after it
IsBefore(df, i) == TsLt(df[i].collected_at, discovery.cutoff_date)
IsAfter(df, i) == TsGe(df[i].collected_at, discovery.cutoff_date)

IsPrefix(s, t) == Len(s) <= Len(t) /\ SubSeq(t, 1, Len(s)) = s

--------------------------------------------------------------------------
\* C1: when the age filter removes nothing, an id is returned for a kind
\* exactly when the truncated history of that kind holds a row of it at or
\* after cutoff = latest - days and no row of it before the cutoff.
C1_NoveltyCorrectness ==
    Returns =>
        /\ discovery.cutoff_date =
              (IF discovery.latest_date = NaT THEN NaT
               ELSE discovery.latest_date - discovery.days)
        /\ \A k \in Kinds :
              Returned(k) = Resolved(k) =>
                \A x \in AllIds :
                    x \in IdsIn(Returned(k)) <=>
                        /\ \E i \in DOMAIN Frame(k) :
                              Frame(k)[i].id = x /\ IsAfter(Frame(k), i)
                        /\ \A i \in DOMAIN Frame(k) :
                              Frame(k)[i].id = x => ~IsBefore(Frame(k), i)

\* a run whose filter removed nothing, which returned one id and held back
\* another that was seen both before and after the cutoff
C1_Witness ==
    /\ Returns
    /\ Returned("models") = Resolved("models")
    /\ \E x, y \in Ids :
          /\ x \in IdsIn(Returned("models"))
          /\ y \notin IdsIn(Returned("models"))
          /\ y \in discovery.models_before_ids \cap discovery.models_after_ids

\* C2: a row collected exactly at the cutoff is in the after partition and
\* never in the before one; an id with no earlier row is then not held back.
\* The example of generations {A, B} on day 1 and {B, C} on day 8 yields
\* {A, B, C} for days = 7 and {C} for days = 6.
C2_BoundaryInclusive ==
    Returns =>
        /\ \A k \in Kinds : \A i \in DOMAIN Frame(k) :
              Frame(k)[i].collected_at = discovery.cutoff_date =>
                /\ Frame(k)[i].id \in AfterIdsOf(k)
                /\ (\A j \in DOMAIN Frame(k) :
                        Frame(k)[j].id = Frame(k)[i].id =>
                            Frame(k)[j].collected_at >= discovery.cutoff_date)
                   => /\ Frame(k)[i].id \notin BeforeIdsOf(k)
                      /\ Frame(k)[i].id \in IdsIn(Resolved(k))
        /\ (hub_models = ExampleModels /\ discovery.top_n_per_day = 2) =>
              /\ discovery.days = 7 => IdsIn(discovery.new_models) = {"A", "B", "C"}
              /\ discovery.days = 6 => IdsIn(discovery.new_models) = {"C"}

\* the example with days = 7: the day-1 generation sits exactly at the cutoff
C2_Witness ==
    /\ Returns
    /\ hub_models = ExampleModels
    /\ discovery.days = 7
    /\ discovery.cutoff_date = 1
    /\ IdsIn(discovery.new_models) = {"A", "B", "C"}

\* C3: the returned rows of a kind hold no id twice, and the row kept for an
\* id is one of its rows in the after partition with the greatest collected_at.
C3_OnePerId ==
    Returns =>
        \A k \in Kinds :
            /\ \A i, j \in DOMAIN Returned(k) :
                  Returned(k)[i].id = Returned(k)[j].id => i = j
            /\ \A i \in DOMAIN Returned(k) :
                  /\ \E j \in DOMAIN Frame(k) :
                        Frame(k)[j] = Returned(k)[i] /\ IsAfter(Frame(k), j)
                  /\ \A j \in DOMAIN Frame(k) :
                        (Frame(k)[j].id = Returned(k)[i].id /\ IsAfter(Frame(k), j))
                            => Frame(k)[j].collected_at <= Returned(k)[i].collected_at

\* an id stored twice at one instant and once earlier inside the window,
\* returned once
C3_Witness ==
    /\ Returns
    /\ \E i, j, l \in DOMAIN discovery.models_df :
          /\ i # j
          /\ discovery.models_df[i].id = discovery.models_df[j].id
          /\ discovery.models_df[i].collected_at = discovery.models_df[j].collected_at
          /\ discovery.models_df[l].id = discovery.models_df[i].id
          /\ discovery.models_df[l].collected_at < discovery.models_df[i].collected_at
          /\ IsAfter(discovery.models_df, l)
          /\ discovery.models_df[i].id \in IdsIn(discovery.new_models)

C5_EmptyHistoryFails ==
    Returns => ~(hub_models = <<>> /\ hub_datasets = <<>>)

\* C6 as claimed: with max_age_months = 0 the age filter removes nothing.
C6_ZeroDisablesFilter ==
    (Returns /\ discovery.max_age_months = 0) =>
        \A k \in Kinds : Returned(k) = Resolved(k)

\* C6, amended: with max_age_months = 0 the age cutoff is the latest
\* collection date, and exactly the new-item rows last modified at or after
\* it are returned.
C6_ZeroKeepsModifiedSinceLatest ==
    (Returns /\ discovery.max_age_months = 0) =>
        /\ discovery.age_cutoff_date = discovery.latest_date
        /\ \A k \in Kinds :
              /\ \A i \in DOMAIN Resolved(k) :
                    Resolved(k)[i] \in {Returned(k)[j] : j \in DOMAIN Returned(k)}
                        <=> /\ discovery.latest_date # NaT
                            /\ Resolved(k)[i].last_modified >= discovery.latest_date
              /\ \A j \in DOMAIN Returned(k) :
                    Returned(k)[j] \in {Resolved(k)[i] : i \in DOMAIN Resolved(k)}

\* a run with max_age_months = 0 that dropped one new item and kept another
C6_Witness ==
    /\ Returns
    /\ discovery.max_age_months = 0
    /\ discovery.new_models # <<>>
    /\ Len(discovery.new_models) < Len(discovery.resolved_models)

\* C7 as claimed: no returned id has a stored row collected before the cutoff.
C7_NewOverStoredHistory ==
    Returns =>
        \A k \in Kinds : \A x \in IdsIn(Returned(k)) :
            \A i \in DOMAIN Stored(k) :
                Stored(k)[i].id = x => ~TsLt(Stored(k)[i].collected_at, discovery.cutoff_date)

\* C7, amended: no returned id has a row collected before the cutoff in the
\* top-N-truncated history, and each has one at or after it.
C7_NewOverTruncatedHistory ==
    Returns =>
        \A k \in Kinds : \A x \in IdsIn(Returned(k)) :
            /\ \A i \in DOMAIN Frame(k) : Frame(k)[i].id = x => ~IsBefore(Frame(k), i)
            /\ \E i \in DOMAIN Frame(k) : Frame(k)[i].id = x /\ IsAfter(Frame(k), i)

\* a returned id whose stored row before the cutoff fell to the top-N cap
C7_Witness ==
    /\ Returns
    /\ \E x \in IdsIn(discovery.new_models) :
          \E i \in DOMAIN hub_models :
              /\ hub_models[i].id = x
              /\ TsLt(hub_models[i].collected_at, discovery.cutoff_date)

RECURSIVE FirstByDownloads(_, _)
\* the first n rows of g by downloads descending, earlier rows first among equals
FirstByDownloads(g, n) ==
    IF n = 0 \/ g = <<>> THEN <<>>
    ELSE LET best == CHOOSE i \in DOMAIN g : \A j \in DOMAIN g :
                        \/ g[i].downloads > g[j].downloads
                        \/ g[i].downloads = g[j].downloads /\ i <= j
         IN  <<g[best]>> \o FirstByDownloads(Take(g, DOMAIN g \ {best}), n - 1)

\* C8: for every collected_at the truncated frame holds exactly the first
\* top_n rows of that generation by downloads descending, ties in stored order.
C8_TopNTruncation ==
    Returns =>
        \A k \in Kinds :
            /\ \A t \in Times :
                  RowsAt(Frame(k), t) =
                      FirstByDownloads(RowsAt(Stored(k), t), discovery.top_n_per_day)
            /\ \A i \in DOMAIN Frame(k) : Frame(k)[i].collected_at \in Times

\* a generation of two equally downloaded items cut to the first, beside
\* another generation that is kept whole
C8_Witness ==
    /\ Returns
    /\ discovery.top_n_per_day = 1
    /\ \E i, j, l \in DOMAIN hub_models :
          /\ i < j
          /\ hub_models[i].collected_at = hub_models[j].collected_at
          /\ hub_models[i].downloads = hub_models[j].downloads
          /\ hub_models[i].id # hub_models[j].id
          /\ hub_models[l].collected_at # hub_models[i].collected_at
          /\ discovery.models_df = <<hub_models[l], hub_models[i]>>

\* C9 as claimed: each kind is partitioned at the latest collected_at of its
\* own truncated frame, less days (stated where both kinds hold rows).
C9_PerSequenceCutoff ==
    (Returns /\ discovery.models_df # <<>> /\ discovery.datasets_df # <<>>) =>
        \A k \in Kinds :
            discovery.cutoff_date = CollectedAtMax(Frame(k)) - discovery.days

\* C9, amended: one cutoff serves both kinds. It is the latest collected_at
\* of the two truncated frames together, less days (of the models frame
\* alone when the datasets frame is empty; NaT, with nothing returned, when
\* the models frame is empty), and each kind is partitioned at it.
C9_SharedCutoff ==
    Returns =>
        LET m == discovery.models_df
            d == discovery.datasets_df
            instants == {m[i].collected_at : i \in DOMAIN m}
                            \cup {d[i].collected_at : i \in DOMAIN d}
        IN  /\ m # <<>> =>
                  /\ discovery.cutoff_date \in {t - discovery.days : t \in
                        IF d = <<>> THEN {m[i].collected_at : i \in DOMAIN m}
                        ELSE instants}
                  /\ \A t \in (IF d = <<>> THEN {m[i].collected_at : i \in DOMAIN m}
                               ELSE instants) :
                        t - discovery.days <= discovery.cutoff_date
            /\ m = <<>> =>
                  /\ discovery.cutoff_date = NaT
                  /\ discovery.new_models = <<>>
                  /\ discovery.new_datasets = <<>>
            /\ \A k \in Kinds :
                  /\ BeforeIdsOf(k) =
                        {Frame(k)[i].id : i \in {j \in DOMAIN Frame(k) : IsBefore(Frame(k), j)}}
                  /\ AfterIdsOf(k) =
                        {Frame(k)[i].id : i \in {j \in DOMAIN Frame(k) : IsAfter(Frame(k), j)}}

\* models collected on day 1 only, datasets on day 8: the models fall before
\* a cutoff that the datasets set
C9_Witness ==
    /\ Returns
    /\ discovery.models_df # <<>>
    /\ discovery.datasets_df # <<>>
    /\ CollectedAtMax(discovery.models_df) < CollectedAtMax(discovery.datasets_df)
    /\ discovery.models_before_ids # {}
    /\ discovery.models_after_ids = {}

\* C10: a collection run keeps every stored row, unchanged and in order, and
\* puts the new rows after them.
C10_AppendOnly ==
    [][/\ IsPrefix(hub_models, hub_models')
       /\ IsPrefix(hub_datasets, hub_datasets')]_vars

====
